---- MODULE Spec2Model ----
(***************************************************************************)
(* Model of scripts/download_inputs.py, scripts/use_day01_as_template.py   *)
(* and scripts/utils.py.                                                   *)
(*                                                                         *)
(* Text is a sequence of one-token strings.  Times are integers: `now` is  *)
(* the naive datetime.datetime.now() in seconds since the AOCDownloader    *)
(* was constructed, `utcHour` is the same clock as an absolute instant in  *)
(* hours since December 1st 00:00 UTC of the configured year.              *)
(***************************************************************************)
EXTENDS Integers, Sequences, FiniteSets, TLC

VARIABLES
    now,         \* datetime.datetime.now(), seconds
    utcHour,     \* datetime.datetime.now(tz=...), hours since Dec 1 00:00 UTC
    wait_until,  \* AOCDownloader.wait_until
    cache,       \* files under <repo>/.cache: path -> <<>> (absent) or <<content>>
    netCount,    \* history: number of requests.get calls made
    lastReq,     \* history: the latest requests.get call
    firstBody,   \* history: url -> <<>> or <<text returned by the first successful download_file(url)>>
    last,        \* history: the latest call on the downloader and what it returned
    \* download_inputs.main
    pc,          \* "idle", "examples" (first loop), "inputs" (second loop), "done", "crashed"
    day,         \* the loop variable of main
    inputs,      \* files under <repo>/inputs: name -> <<>> (absent) or <<content>>
    run,         \* history: number of runs of main started
    crash,       \* history: the exception that ended the run, "" if none
    visited,     \* history: the <<loop, day>> iterations of this run, in order
    runWrites,   \* history: number of files this run has written under inputs
    runNet,      \* history: netCount when this run started
    prevDone,    \* history: the previous run ran to completion
    startReleased, \* history: the days released when this run started
    prevReleased,  \* history: the days released when the previous run started
    \* the loops of download_examples over one parsed page
    soup,        \* the chain of sibling nodes
    epc,         \* "idle", "for", "while", "done", "raised"
    code_block,  \* index in soup of the current <pre>
    previous_paragraph, \* index in soup, 0 is None
    examples,    \* the list built so far
    \* use_day01_as_template.main
    template,    \* the text of day01.rs
    tday,        \* the loop variable
    solutions    \* files under <repo>/src/solutions: day -> <<>> or <<content>>

fetchVars == <<now, wait_until, cache, netCount, lastReq, firstBody, last>>
syncVars == <<pc, day, inputs, run, crash, visited, runWrites, runNet, prevDone,
              startReleased, prevReleased>>
extractVars == <<soup, epc, code_block, previous_paragraph, examples>>
templateVars == <<template, tday, solutions>>

vars == <<utcHour, fetchVars, syncVars, extractVars, templateVars>>

-----------------------------------------------------------------------------
(* Bounds *)

MaxTime == 7          \* the fetcher is observed for this many seconds
MaxRequests == 2      \* at most this many requests.get calls are observed
NumDays == 2          \* days 1..NumDays stand for range(1, 26)
MaxRuns == 2          \* main is run at most this many times
GateRequests == 6     \* at most this many requests.get calls around the release instants
MaxSoupLen == 4       \* sibling nodes in a parsed page
MaxTemplateLen == 5   \* tokens in day01.rs

-----------------------------------------------------------------------------
(* Program constants *)

ThrottlePeriod == 5   \* datetime.timedelta(seconds=5)
Year == 2020          \* AOCDownloader(year=2020)
est == 0 - 5          \* datetime.timezone(datetime.timedelta(hours=-5))
SessionId == "session"

FirstDay == 1         \* range(1, 26)
LastDay == 25         \* range(1, 26)

Days == FirstDay..NumDays      \* the days main loops over
GateDays == {FirstDay, LastDay} \* the days whose release instants are sampled
FetchDays == {FirstDay}         \* the day whose two urls are fetched in any order

-----------------------------------------------------------------------------
(* Text files: cache_file.open("w").write(text) and cache_file.open().read() *)

LineSep == <<"\n">>   \* os.linesep of the platform the scripts run on

RECURSIVE WriteText(_)
WriteText(s) ==
    IF s = <<>> THEN <<>>
    ELSE (IF Head(s) = "\n" THEN LineSep ELSE <<Head(s)>>) \o WriteText(Tail(s))

RECURSIVE ReadText(_)
ReadText(s) ==
    IF s = <<>> THEN <<>>
    ELSE IF Head(s) = "\r"
         THEN IF Len(s) >= 2 /\ s[2] = "\n"
              THEN <<"\n">> \o ReadText(Tail(Tail(s)))
              ELSE <<"\n">> \o ReadText(Tail(s))
         ELSE <<Head(s)>> \o ReadText(Tail(s))

-----------------------------------------------------------------------------
(* URLs and cache paths *)

InputUrl(d) ==
    <<"https:", "/", "/", "adventofcode.com", "/", ToString(Year), "/", "day", "/", ToString(d), "/", "input">>

PageUrl(d) ==
    <<"https:", "/", "/", "adventofcode.com", "/", ToString(Year), "/", "day", "/", ToString(d)>>

UrlsOf(days) == {InputUrl(d) : d \in days} \cup {PageUrl(d) : d \in days}

Urls == UrlsOf(Days \cup GateDays \cup FetchDays)

ReplaceSlash(url) == [i \in 1..Len(url) |-> IF url[i] = "/" THEN "_" ELSE url[i]]

CacheFile(url) == <<".cache", SessionId, ReplaceSlash(url)>>

CacheFiles == {CacheFile(u) : u \in Urls}

-----------------------------------------------------------------------------
(* The remote service *)

TextBodies == {<<>>, <<"a", "\n">>, <<"a", "\r", "\n">>}

ExampleCaption == <<"<p>", "E", "x", "a", "m", "p", "l", "e", "</p>">>
OtherCaption == <<"<p>", "a", "</p>">>

PageBodies ==
    { OtherCaption,
      ExampleCaption \o <<"\r", "\n", "<pre>", "X", "\n", "Y", "</pre>">>,
      <<"<pre>", "X", "</pre>">> }

BodiesOf(url) == IF url[Len(url)] = "input" THEN TextBodies ELSE PageBodies

Responses(url) ==
    {[kind |-> "ok", text |-> b] : b \in BodiesOf(url)}
        \cup {[kind |-> "httperror", text |-> <<>>], [kind |-> "connerror", text |-> <<>>]}

-----------------------------------------------------------------------------
(* BeautifulSoup: a parsed page is the chain of sibling nodes [tag, text] *)

OpenTags == {"<p>", "<pre>"}
CloseOf(t) == IF t = "<p>" THEN "</p>" ELSE "</pre>"
NameOf(t) == IF t = "<p>" THEN "p" ELSE "pre"

\* least index i >= 1 with s[i] \in toks, Len(s) + 1 if there is none
RECURSIVE FirstIn(_, _)
FirstIn(s, toks) ==
    IF s = <<>> \/ Head(s) \in toks THEN 1 ELSE 1 + FirstIn(Tail(s), toks)

RECURSIVE BeautifulSoup(_)
BeautifulSoup(html) ==
    IF html = <<>> THEN <<>>
    ELSE IF Head(html) \in OpenTags
         THEN LET k == FirstIn(Tail(html), {CloseOf(Head(html))})
              IN  <<[tag |-> NameOf(Head(html)), text |-> SubSeq(html, 2, k)]>>
                      \o BeautifulSoup(SubSeq(html, k + 2, Len(html)))
         ELSE LET k == FirstIn(html, OpenTags)
              IN  <<[tag |-> "str", text |-> SubSeq(html, 1, k - 1)]>>
                      \o BeautifulSoup(SubSeq(html, k, Len(html)))

Whitespace == {" ", "\n", "\r", "\t"}

RECURSIVE LStrip(_)
LStrip(s) == IF s # <<>> /\ Head(s) \in Whitespace THEN LStrip(Tail(s)) ELSE s

RECURSIVE RStrip(_)
RStrip(s) ==
    IF s # <<>> /\ s[Len(s)] \in Whitespace THEN RStrip(SubSeq(s, 1, Len(s) - 1)) ELSE s

Strip(s) == RStrip(LStrip(s))

LowerChar(c) ==
    CASE c = "E" -> "e" [] c = "X" -> "x" [] c = "A" -> "a" [] c = "M" -> "m"
      [] c = "P" -> "p" [] c = "L" -> "l" [] c = "Y" -> "y" [] OTHER -> c

\* str.lower left out
Lower_identity(s) == s

Lower(s) == [i \in 1..Len(s) |-> LowerChar(s[i])]

\* needle in hay
Contains(needle, hay) ==
    \E i \in 0..(Len(hay) - Len(needle)) : SubSeq(hay, i + 1, i + Len(needle)) = needle

ExampleWord == <<"e", "x", "a", "m", "p", "l", "e">>

\* the while True loop of download_examples, started at sibling j of the chain;
\* 0 is None, whose .previous_sibling raises AttributeError
RECURSIVE PreviousParagraph(_, _)
PreviousParagraph(chain, j) ==
    IF j = 0 THEN 0
    ELSE IF Strip(chain[j].text) # <<>> THEN j
    ELSE PreviousParagraph(chain, j - 1)

\* the for loop of download_examples over chain.find_all("pre"), from sibling i on
RECURSIVE ExamplesFrom(_, _)
ExamplesFrom(chain, i) ==
    IF i > Len(chain) THEN [raised |-> FALSE, examples |-> <<>>]
    ELSE IF chain[i].tag # "pre" THEN ExamplesFrom(chain, i + 1)
    ELSE LET caption == PreviousParagraph(chain, i - 1)
         IN  IF caption = 0
             THEN [raised |-> TRUE, examples |-> <<>>]
             ELSE LET rest == ExamplesFrom(chain, i + 1)
                  IN  IF Contains(ExampleWord, Lower(chain[caption].text))
                      THEN [rest EXCEPT !.examples = <<chain[i].text>> \o @]
                      ELSE rest

-----------------------------------------------------------------------------
(* AOCDownloader *)

\* wait_for_throttle without the time.sleep
wait_for_throttle_nosleep(over) == now

\* wait_for_throttle: the instant at which it returns; over is the oversleep
\* of time.sleep
wait_for_throttle(over) ==
    IF now < wait_until THEN wait_until + over ELSE now

\* reset_throttle that forgets to read the clock
reset_throttle_noclock(done) == ThrottlePeriod

reset_throttle(done) == done + ThrottlePeriod

NoReq == [start |-> 0 - 1, done |-> 0 - 1, kind |-> "none", waited |-> 0, gap |-> 0 - 1,
          prevKind |-> "none"]

NoCall == [op |-> "none", day |-> 0, url |-> <<>>, gate |-> "none", fetch |-> "none",
           ret |-> "None", error |-> "", text |-> <<>>, examples |-> <<>>]

\* what the call op(...) hands to its caller once download_file(url) has
\* returned text, or raised (fetch says which)
Returned(op, d, url, fetch, text) ==
    LET call == [NoCall EXCEPT !.op = op, !.day = d, !.url = url, !.fetch = fetch,
                               !.text = IF fetch \in {"hit", "ok"} THEN text ELSE <<>>,
                               !.gate = IF op = "download_file" THEN "none" ELSE "released"]
    IN  IF fetch = "httperror" THEN [call EXCEPT !.ret = "raise", !.error = "HTTPError"]
        ELSE IF fetch = "connerror" THEN [call EXCEPT !.ret = "raise", !.error = "ConnectionError"]
        ELSE IF op # "download_examples" THEN [call EXCEPT !.ret = "text"]
        ELSE LET found == ExamplesFrom(BeautifulSoup(text), 1)
             IN  IF found.raised
                 THEN [call EXCEPT !.ret = "raise", !.error = "AttributeError"]
                 ELSE [call EXCEPT !.ret = "list", !.examples = found.examples]

\* download_file(url), called from op(d)
download_file(url, op, d, horizon, maxReq, slack) ==
    LET cache_file == CacheFile(url)
        first(fetch, text) ==
            IF firstBody[url] = <<>> /\ fetch \in {"hit", "ok"}
            THEN [firstBody EXCEPT ![url] = <<text>>]
            ELSE firstBody
    IN  IF cache[cache_file] # <<>>
        THEN LET text == ReadText(cache[cache_file][1])
             IN  /\ last' = Returned(op, d, url, "hit", text)
                 /\ firstBody' = first("hit", text)
                 /\ UNCHANGED <<now, wait_until, cache, netCount, lastReq>>
        ELSE \E res \in Responses(url), over \in slack, dur \in slack :
                LET start == wait_for_throttle(over)
                    done == start + dur
                IN  /\ done <= horizon
                    /\ netCount < maxReq
                    /\ now' = done
                    /\ netCount' = netCount + 1
                    /\ lastReq' = [start |-> start, done |-> done, kind |-> res.kind,
                                    waited |-> start - now,
                                    gap |-> IF netCount = 0 THEN 0 - 1 ELSE start - lastReq.start,
                                    prevKind |-> lastReq.kind]
                    /\ wait_until' = IF res.kind = "connerror"
                                     THEN wait_until
                                     ELSE reset_throttle(done)
                    /\ cache' = IF res.kind = "ok"
                                THEN [cache EXCEPT ![cache_file] = <<WriteText(res.text)>>]
                                ELSE cache
                    /\ last' = Returned(op, d, url, res.kind, res.text)
                    /\ firstBody' = first(res.kind, res.text)

\* aware datetimes: wall-clock hours since December 1st 00:00, and utcoffset
DecemberDay(d, tz) == [wall |-> 24 * (d - 1), off |-> tz]
NowIn(tz) == [wall |-> utcHour + tz, off |-> tz]
\* now >= problem_release in place of now > problem_release
AwareGreater_orEqual(a, b) == a.wall - a.off >= b.wall - b.off

AwareGreater(a, b) == a.wall - a.off > b.wall - b.off

problem_released(d) == AwareGreater(NowIn(est), DecemberDay(d, est))

download_input(d, horizon, maxReq, slack) ==
    IF ~problem_released(d)
    THEN /\ last' = [NoCall EXCEPT !.op = "download_input", !.day = d, !.gate = "unreleased"]
         /\ UNCHANGED <<now, wait_until, cache, netCount, lastReq, firstBody>>
    ELSE download_file(InputUrl(d), "download_input", d, horizon, maxReq, slack)

download_examples(d, horizon, maxReq, slack) ==
    IF ~problem_released(d)
    THEN /\ last' = [NoCall EXCEPT !.op = "download_examples", !.day = d, !.gate = "unreleased"]
         /\ UNCHANGED <<now, wait_until, cache, netCount, lastReq, firstBody>>
    ELSE download_file(PageUrl(d), "download_examples", d, horizon, maxReq, slack)

-----------------------------------------------------------------------------
(* Spec: one AOCDownloader, its methods called in any order *)

ReleaseHour(d) == 24 * (d - 1) + 5

HoursAround(days) == UNION {{ReleaseHour(d) - 1, ReleaseHour(d), ReleaseHour(d) + 1} : d \in days}

Slack == 0..1

\* AOCDownloader.__init__ at time 0, nothing cached
FetchInit ==
    /\ now = 0
    /\ wait_until = 0
    /\ cache = [f \in CacheFiles |-> <<>>]
    /\ netCount = 0
    /\ lastReq = NoReq
    /\ firstBody = [u \in Urls |-> <<>>]
    /\ last = NoCall

SyncIdle ==
    /\ pc = "idle"
    /\ day = 0
    /\ inputs = <<>>
    /\ run = 0
    /\ crash = ""
    /\ visited = <<>>
    /\ runWrites = 0
    /\ runNet = 0
    /\ prevDone = FALSE
    /\ startReleased = {}
    /\ prevReleased = {}

ExtractIdle ==
    /\ soup = <<>>
    /\ epc = "idle"
    /\ code_block = 0
    /\ previous_paragraph = 0
    /\ examples = <<>>

TemplateIdle ==
    /\ template = <<>>
    /\ tday = 0
    /\ solutions = <<>>

FetchHours == HoursAround(FetchDays)

Init ==
    /\ utcHour \in FetchHours
    /\ FetchInit
    /\ SyncIdle
    /\ ExtractIdle
    /\ TemplateIdle

Tick ==
    /\ now < MaxTime
    /\ now' = now + 1
    /\ UNCHANGED <<utcHour, wait_until, cache, netCount, lastReq, firstBody, last>>
    /\ UNCHANGED <<syncVars, extractVars, templateVars>>

HourPasses ==
    /\ \E h \in FetchHours : h > utcHour /\ utcHour' = h
    /\ UNCHANGED <<fetchVars, syncVars, extractVars, templateVars>>

CallDownloadFile ==
    /\ \E url \in UrlsOf(FetchDays) :
           download_file(url, "download_file", 0, MaxTime, MaxRequests, Slack)
    /\ UNCHANGED <<utcHour, syncVars, extractVars, templateVars>>

CallDownloadInput ==
    /\ \E d \in FetchDays : download_input(d, MaxTime, MaxRequests, Slack)
    /\ UNCHANGED <<utcHour, syncVars, extractVars, templateVars>>

CallDownloadExamples ==
    /\ \E d \in FetchDays : download_examples(d, MaxTime, MaxRequests, Slack)
    /\ UNCHANGED <<utcHour, syncVars, extractVars, templateVars>>

Next == Tick \/ HourPasses \/ CallDownloadFile \/ CallDownloadInput \/ CallDownloadExamples

Spec == Init /\ [][Next]_vars

-----------------------------------------------------------------------------
(* GateSpec: download_input and download_examples around the release instants *)


GateInit ==
    /\ utcHour \in HoursAround(GateDays)
    /\ FetchInit
    /\ SyncIdle
    /\ ExtractIdle
    /\ TemplateIdle

GateHourPasses ==
    /\ \E h \in HoursAround(GateDays) : h > utcHour /\ utcHour' = h
    /\ UNCHANGED <<fetchVars, syncVars, extractVars, templateVars>>

GateDownloadInput ==
    /\ \E d \in GateDays : download_input(d, ThrottlePeriod * GateRequests, GateRequests, {0})
    /\ UNCHANGED <<utcHour, syncVars, extractVars, templateVars>>

GateDownloadExamples ==
    /\ \E d \in GateDays : download_examples(d, ThrottlePeriod * GateRequests, GateRequests, {0})
    /\ UNCHANGED <<utcHour, syncVars, extractVars, templateVars>>

GateNext == GateHourPasses \/ GateDownloadInput \/ GateDownloadExamples

GateSpec == GateInit /\ [][GateNext]_vars

-----------------------------------------------------------------------------
(* SyncSpec: download_inputs.main, run up to MaxRuns times on one repository *)

\* f"{day:02d}"
Pad2(d) == IF d < 10 THEN <<"0", ToString(d)>> ELSE <<ToString(d)>>

\* f"day{day:02d}_example{i+1}.txt", i the index of enumerate
ExampleFile(d, i) == <<"day">> \o Pad2(d) \o <<"_example", ToString(i + 1), ".txt">>

\* f"day{day:02d}.txt"
InputFile(d) == <<"day">> \o Pad2(d) \o <<".txt">>

PreCount(html) == Cardinality({i \in 1..Len(html) : html[i] = "<pre>"})

InputNames ==
    {InputFile(d) : d \in Days}
        \cup {ExampleFile(d, i) : d \in Days, i \in {n \in 0..3 : \E b \in PageBodies : n < PreCount(b)}}

\* a glob that never matches
GlobExamples_none(d) == {}

\* list(repo_dir.joinpath("inputs").glob(f"day{day:02d}_example*.txt"))
GlobExamples(d) ==
    LET prefix == <<"day">> \o Pad2(d) \o <<"_example">>
    IN  {f \in InputNames :
            /\ inputs[f] # <<>>
            /\ Len(f) >= Len(prefix) + 1
            /\ SubSeq(f, 1, Len(prefix)) = prefix
            /\ f[Len(f)] = ".txt"}

\* output_file.exists()
Exists(f) == inputs[f] # <<>>

OldText == <<"o">>

\* every request main can make before the runs are used up
SyncRequests == 2 * NumDays + MaxRuns

ReleasedDays == {d \in Days : problem_released(d)}

SyncInit ==
    /\ utcHour \in HoursAround(Days)
    /\ FetchInit
    /\ pc = "idle"
    /\ day = 0
    /\ inputs \in [InputNames -> {<<>>, <<OldText>>}]
    /\ run = 0
    /\ crash = ""
    /\ visited = <<>>
    /\ runWrites = 0
    /\ runNet = 0
    /\ prevDone = FALSE
    /\ startReleased = {}
    /\ prevReleased = {}
    /\ ExtractIdle
    /\ TemplateIdle

SyncHourPasses ==
    /\ \E h \in HoursAround(Days) : h > utcHour /\ utcHour' = h
    /\ UNCHANGED <<fetchVars, syncVars, extractVars, templateVars>>

\* the script is started: downloader = AOCDownloader(year=2020)
StartRun ==
    /\ pc \in {"idle", "done", "crashed"}
    /\ run < MaxRuns
    /\ run' = run + 1
    /\ pc' = "examples"
    /\ day' = FirstDay
    /\ crash' = ""
    /\ visited' = <<>>
    /\ runWrites' = 0
    /\ runNet' = netCount
    /\ prevDone' = (pc = "done")
    /\ startReleased' = ReleasedDays
    /\ prevReleased' = startReleased
    /\ wait_until' = now
    /\ lastReq' = NoReq
    /\ last' = NoCall
    /\ UNCHANGED <<utcHour, now, cache, netCount, firstBody, inputs, extractVars, templateVars>>

\* f.write of each example of the list, in order
RECURSIVE WriteExamples(_, _, _, _)
WriteExamples(files, d, list, i) ==
    IF i >= Len(list) THEN files
    ELSE WriteExamples([files EXCEPT ![ExampleFile(d, i)] = <<WriteText(list[i + 1])>>],
                       d, list, i + 1)

\* one iteration of the first loop of main
ExampleStep ==
    /\ pc = "examples"
    /\ visited' = Append(visited, <<"examples", day>>)
    /\ IF GlobExamples(day) # {}
       THEN /\ pc' = IF day = NumDays THEN "inputs" ELSE "examples"
            /\ day' = IF day = NumDays THEN FirstDay ELSE day + 1
            /\ UNCHANGED <<fetchVars, inputs, crash, runWrites>>
       ELSE /\ download_examples(day, ThrottlePeriod * SyncRequests, SyncRequests, {0})
            /\ IF last'.ret = "raise"
               THEN /\ pc' = "crashed"
                    /\ crash' = last'.error
                    /\ UNCHANGED <<day, inputs, runWrites>>
               ELSE IF last'.ret = "None"
               THEN \* enumerate(None)
                    /\ pc' = "crashed"
                    /\ crash' = "TypeError"
                    /\ UNCHANGED <<day, inputs, runWrites>>
               ELSE /\ inputs' = WriteExamples(inputs, day, last'.examples, 0)
                    /\ runWrites' = runWrites + Len(last'.examples)
                    /\ pc' = IF day = NumDays THEN "inputs" ELSE "examples"
                    /\ day' = IF day = NumDays THEN FirstDay ELSE day + 1
                    /\ UNCHANGED crash
    /\ UNCHANGED <<utcHour, run, runNet, prevDone, startReleased, prevReleased>>
    /\ UNCHANGED <<extractVars, templateVars>>

\* one iteration of the second loop of main
InputStep ==
    /\ pc = "inputs"
    /\ visited' = Append(visited, <<"inputs", day>>)
    /\ IF Exists(InputFile(day))
       THEN /\ pc' = IF day = NumDays THEN "done" ELSE "inputs"
            /\ day' = IF day = NumDays THEN day ELSE day + 1
            /\ UNCHANGED <<fetchVars, inputs, crash, runWrites>>
       ELSE /\ download_input(day, ThrottlePeriod * SyncRequests, SyncRequests, {0})
            /\ IF last'.ret = "raise"
               THEN /\ pc' = "crashed"
                    /\ crash' = last'.error
                    /\ UNCHANGED <<day, inputs, runWrites>>
               ELSE /\ IF last'.ret = "text" /\ last'.text # <<>>
                       THEN /\ inputs' = [inputs EXCEPT ![InputFile(day)] = <<WriteText(last'.text)>>]
                            /\ runWrites' = runWrites + 1
                       ELSE UNCHANGED <<inputs, runWrites>>
                    /\ pc' = IF day = NumDays THEN "done" ELSE "inputs"
                    /\ day' = IF day = NumDays THEN day ELSE day + 1
                    /\ UNCHANGED crash
    /\ UNCHANGED <<utcHour, run, runNet, prevDone, startReleased, prevReleased>>
    /\ UNCHANGED <<extractVars, templateVars>>

SyncNext == SyncHourPasses \/ StartRun \/ ExampleStep \/ InputStep

SyncSpec == SyncInit /\ [][SyncNext]_vars

-----------------------------------------------------------------------------
(* ExtractSpec: the two loops of download_examples, one step at a time *)

BlankText == <<" ", "\n">>
CaptionText == <<"a", " ", "E", "X", "a", "m", "p", "l", "e">>
NearMissText == <<"e", "x", "a", "m", "p", "l">>
CodeText == <<"X", "\n", "Y">>

SoupNodes ==
    {[tag |-> "p", text |-> x] : x \in {BlankText, CaptionText, NearMissText}}
        \cup {[tag |-> "pre", text |-> x] : x \in {BlankText, CaptionText, CodeText}}
        \cup {[tag |-> "str", text |-> BlankText]}

Soups == UNION {[1..n -> SoupNodes] : n \in 0..MaxSoupLen}

ExtractInit ==
    /\ utcHour = ReleaseHour(LastDay) + 1
    /\ FetchInit
    /\ SyncIdle
    /\ soup \in Soups
    /\ epc = "for"
    /\ code_block = 0
    /\ previous_paragraph = 0
    /\ examples = <<>>
    /\ TemplateIdle

\* .previous_sibling that stays where it is
previous_sibling_self(j) == j

\* .previous_sibling of sibling j; 0 is None
previous_sibling(j) == j - 1

\* for code_block in soup.find_all("pre"): the next block, if any
ForStep ==
    /\ epc = "for"
    /\ LET rest == {i \in (code_block + 1)..Len(soup) : soup[i].tag = "pre"}
       IN  IF rest = {}
           THEN /\ epc' = "done"
                /\ UNCHANGED <<code_block, previous_paragraph>>
           ELSE LET i == CHOOSE i \in rest : \A k \in rest : i <= k
                IN  /\ code_block' = i
                    /\ previous_paragraph' = previous_sibling(i)
                    /\ epc' = "while"
    /\ UNCHANGED <<soup, examples>>
    /\ UNCHANGED <<utcHour, fetchVars, syncVars, templateVars>>

\* one iteration of while True, and the if that follows the break
WhileStep ==
    /\ epc = "while"
    /\ IF previous_paragraph # 0 /\ Strip(soup[previous_paragraph].text) # <<>>
       THEN /\ examples' = IF Contains(ExampleWord, Lower(soup[previous_paragraph].text))
                           THEN Append(examples, soup[code_block].text)
                           ELSE examples
            /\ epc' = "for"
            /\ UNCHANGED previous_paragraph
       ELSE IF previous_paragraph = 0
            THEN \* None.previous_sibling
                 /\ epc' = "raised"
                 /\ UNCHANGED <<previous_paragraph, examples>>
            ELSE /\ previous_paragraph' = previous_sibling(previous_paragraph)
                 /\ UNCHANGED <<epc, examples>>
    /\ UNCHANGED <<soup, code_block>>
    /\ UNCHANGED <<utcHour, fetchVars, syncVars, templateVars>>

ExtractNext == ForStep \/ WhileStep

ExtractSpec == ExtractInit /\ [][ExtractNext]_vars

\* the interpreter keeps running the loops
ExtractLive == ExtractInit /\ [][ExtractNext]_vars /\ WF_vars(ExtractNext)

-----------------------------------------------------------------------------
(* TemplateSpec: use_day01_as_template.main *)

FnDay == "fn day(&self) -> i32 {"
FnImplemented == "fn implemented(&self) -> bool {"

TemplateTokens == {" ", "1", "Day01", FnDay, FnImplemented, "true", "}"}

Templates == UNION {[1..n -> TemplateTokens] : n \in 0..MaxTemplateLen}

FirstCopy == 2        \* range(2, 26)

\* str.replace(old, new)
RECURSIVE Replace(_, _, _)
Replace(text, old, new) ==
    IF Len(text) < Len(old) THEN text
    ELSE IF SubSeq(text, 1, Len(old)) = old
         THEN new \o Replace(SubSeq(text, Len(old) + 1, Len(text)), old, new)
         ELSE <<Head(text)>> \o Replace(Tail(text), old, new)

\* the index after the run of \s that starts at index i of text
RECURSIVE SkipSpace(_, _)
SkipSpace(text, i) ==
    IF i <= Len(text) /\ text[i] \in Whitespace THEN SkipSpace(text, i + 1) ELSE i

\* where a match of  header \s* literal \s* \}  that starts at index 1 of text
\* has its literal, 0 if there is no such match
MatchLiteral(text, header, literal) ==
    IF text = <<>> \/ Head(text) # header THEN 0
    ELSE LET i == SkipSpace(text, 2)
         IN  IF i > Len(text) \/ text[i] # literal THEN 0
             ELSE LET j == SkipSpace(text, i + 1)
                  IN  IF j <= Len(text) /\ text[j] = "}" THEN i ELSE 0

\* re.sub("(?P<before>header\s*)literal(?P<after>\s*\})", "\g<before>new\g<after>", text)
RECURSIVE ReSub(_, _, _, _)
ReSub(text, header, literal, new) ==
    IF text = <<>> THEN <<>>
    ELSE LET i == MatchLiteral(text, header, literal)
         IN  IF i = 0
             THEN <<Head(text)>> \o ReSub(Tail(text), header, literal, new)
             ELSE LET j == SkipSpace(text, i + 1)
                  IN  SubSeq(text, 1, i - 1) \o <<new>> \o SubSeq(text, i + 1, j)
                          \o ReSub(SubSeq(text, j + 1, Len(text)), header, literal, new)

\* the two str.replace calls of line 15, without the second
ReplaceLabels_only(text, d) == Replace(text, <<"Day01">>, <<"Day">> \o Pad2(d))

\* template.replace("Day01", f"Day{day:02d}").replace("  1", f"  {day}")
ReplaceLabels(text, d) ==
    Replace(Replace(text, <<"Day01">>, <<"Day">> \o Pad2(d)),
            <<" ", " ", "1">>, <<" ", " ", ToString(d)>>)

\* the body of the loop: the text written to dayDD.rs
Expand(text, d) ==
    ReSub(ReSub(ReplaceLabels(text, d), FnDay, "1", ToString(d)),
          FnImplemented, "true", "false")

SolutionDays == 1..NumDays

TemplateInit ==
    /\ utcHour = ReleaseHour(LastDay) + 1
    /\ FetchInit
    /\ SyncIdle
    /\ ExtractIdle
    /\ template = <<>>
    /\ tday = 0
    /\ \E t \in Templates :
           solutions = [d \in SolutionDays |-> IF d = 1 THEN <<WriteText(t)>> ELSE <<>>]

\* template = solutions_dir.joinpath("day01.rs").open().read()
ReadTemplate ==
    /\ tday = 0
    /\ template' = ReadText(solutions[1][1])
    /\ tday' = FirstCopy
    /\ UNCHANGED solutions
    /\ UNCHANGED <<utcHour, fetchVars, syncVars, extractVars>>

\* one iteration of for day in range(2, 26)
ExpandStep ==
    /\ tday >= FirstCopy
    /\ tday <= NumDays
    /\ solutions' = [solutions EXCEPT ![tday] = <<WriteText(Expand(template, tday))>>]
    /\ tday' = tday + 1
    /\ UNCHANGED template
    /\ UNCHANGED <<utcHour, fetchVars, syncVars, extractVars>>

TemplateNext == ReadTemplate \/ ExpandStep

TemplateSpec == TemplateInit /\ [][TemplateNext]_vars

-----------------------------------------------------------------------------
(* Properties of the AOCDownloader *)

\* C1: once download_file(url) has returned text, every later download_file(url)
\* returns exactly that text
C1_CacheIdempotence ==
    \A u \in Urls :
        (last.url = u /\ last.fetch \in {"hit", "ok"}) => last.text = firstBody[u][1]

CallStep == last' # last

\* C2: the start of a request is at least throttle_period after the start of the
\* request before it, when that one got a response (success or HTTP error
\* status); the first request of the instance does not wait
C2_ThrottleSpacing ==
    /\ lastReq.prevKind \in {"ok", "httperror"} => lastReq.gap >= ThrottlePeriod
    /\ netCount = 1 => lastReq.waited = 0

C2_Witness ==
    /\ netCount = 2
    /\ lastReq.prevKind = "httperror"
    /\ lastReq.waited > 0
    /\ lastReq.gap >= ThrottlePeriod

\* C3: a request that fails, by an HTTP error status or by requests.get raising,
\* leaves wait_until at its completion time plus throttle_period, leaves no
\* cache entry for the url, and raises to the caller
C3_ThrottleOnFailure ==
    last.fetch \in {"httperror", "connerror"} =>
        /\ last.ret = "raise"
        /\ cache[CacheFile(last.url)] = <<>>
        /\ wait_until = lastReq.done + ThrottlePeriod

\* C4: problem_released(D) is true exactly after December D 00:00 UTC-5, which
\* is 05:00 UTC; an unreleased download_input or download_examples returns None
\* and makes no request, creates no cache entry and leaves wait_until alone
C4_Gate ==
    /\ \A d \in FirstDay..LastDay : problem_released(d) <=> utcHour > ReleaseHour(d)
    /\ last.op \in {"download_input", "download_examples"} =>
           (last.gate = "unreleased" => last.ret = "None" /\ last.fetch = "none")

C4_GateStep ==
    (CallStep /\ last'.op \in {"download_input", "download_examples"}) =>
        /\ last'.gate = "unreleased" <=> utcHour <= ReleaseHour(last'.day)
        /\ last'.gate = "unreleased" => UNCHANGED <<cache, wait_until, netCount, lastReq, now>>

\* C4: the gate is open exactly after the release instant, and a call on a
\* closed gate returns None without touching the downloader or the cache
C4_ReleaseGate == []C4_Gate /\ [][C4_GateStep]_vars

C4_Witness ==
    /\ last.op = "download_examples"
    /\ last.gate = "unreleased"
    /\ utcHour = ReleaseHour(last.day)
    /\ netCount > 0

\* C8: wait_until never decreases; it changes only in a step that made a
\* request, to the completion time of the request plus throttle_period; a cache
\* hit makes no request and leaves wait_until alone
C8_DeadlineStep ==
    /\ wait_until' >= wait_until
    /\ wait_until' # wait_until =>
           /\ netCount' = netCount + 1
           /\ wait_until' = now' + ThrottlePeriod
           /\ lastReq'.done = now'
    /\ (CallStep /\ last'.fetch = "hit") => (netCount' = netCount /\ wait_until' = wait_until)

\* C8: every step of the downloader keeps the deadline discipline above
C8_DeadlineInvariant == [][C8_DeadlineStep]_vars

C8_Witness ==
    /\ last.fetch = "hit"
    /\ netCount = 2
    /\ wait_until > ThrottlePeriod

-----------------------------------------------------------------------------
(* Properties of download_inputs.main *)

SecondRunAfterCompletion == run >= 2 /\ prevDone

\* C5 as stated: a run that follows a completed run writes no file under
\* inputs and makes no request
C5_SyncIdempotence ==
    SecondRunAfterCompletion => (runWrites = 0 /\ netCount = runNet)

\* C5, amended: a run that follows a completed run writes no file under inputs
\* and makes no request, as long as no day has been released since the completed
\* run started; in any run a day with an example file causes no
\* download_examples call and a day with its input file no download_input call
C5_Quiet ==
    (SecondRunAfterCompletion /\ ReleasedDays = prevReleased) =>
        (runWrites = 0 /\ netCount = runNet)

C5_SkipStep ==
    /\ (pc = "examples" /\ visited' # visited /\ GlobExamples(day) # {}) =>
           UNCHANGED <<last, netCount, cache, inputs>>
    /\ (pc = "inputs" /\ visited' # visited /\ Exists(InputFile(day))) =>
           UNCHANGED <<last, netCount, cache, inputs>>

\* C5, amended: the quiet second run and the skipped calls together
C5_SyncIdempotenceAmended == []C5_Quiet /\ [][C5_SkipStep]_vars

C5_Witness ==
    /\ SecondRunAfterCompletion
    /\ ReleasedDays = prevReleased
    /\ pc = "done"
    /\ runNet > 0
    /\ last.fetch = "hit"
    /\ \E d \in Days : GlobExamples(d) # {} /\ inputs[ExampleFile(d, 0)] # <<OldText>>

ExamplePass == [i \in 1..NumDays |-> <<"examples", FirstDay + i - 1>>]
InputPass == [i \in 1..NumDays |-> <<"inputs", FirstDay + i - 1>>]

\* C10: a run is stopped only by a failing request (or a page without caption);
\* the first loop visits every day before the second loop starts, the second
\* visits every day, and at the end every day that was released, had no
\* dayDD.txt and got a non-empty input has dayDD.txt
C10_TwoPassSync ==
    /\ pc = "crashed" => crash \in {"HTTPError", "ConnectionError", "AttributeError"}
    /\ pc = "inputs" => SubSeq(visited, 1, NumDays) = ExamplePass
    /\ pc = "done" =>
          /\ visited = ExamplePass \o InputPass
          /\ \A d \in startReleased :
                 Exists(InputFile(d)) \/ cache[CacheFile(InputUrl(d))] = << <<>> >>

-----------------------------------------------------------------------------
(* Properties of the example extraction *)

HasText(node) == \E i \in 1..Len(node.text) : node.text[i] \notin {" ", "\n", "\r", "\t"}

\* the nearest sibling before i with non-whitespace text, 0 if there is none
CaptionOf(i) ==
    IF \E j \in 1..(i - 1) : HasText(soup[j])
    THEN CHOOSE j \in 1..(i - 1) :
             HasText(soup[j]) /\ \A k \in (j + 1)..(i - 1) : ~HasText(soup[k])
    ELSE 0

UpperOf(c) ==
    CASE c = "e" -> "E" [] c = "x" -> "X" [] c = "a" -> "A" [] c = "m" -> "M"
      [] c = "p" -> "P" [] c = "l" -> "L" [] OTHER -> c

MentionsExample(text) ==
    \E k \in 0..(Len(text) - 7) :
        \A m \in 1..7 : text[k + m] \in {ExampleWord[m], UpperOf(ExampleWord[m])}

PreBlocks == {i \in 1..Len(soup) : soup[i].tag = "pre"}

ExampleBlocks == {i \in PreBlocks : CaptionOf(i) # 0 /\ MentionsExample(soup[CaptionOf(i)].text)}

InOrder(S) ==
    CHOOSE f \in [1..Cardinality(S) -> S] : \A a, b \in 1..Cardinality(S) : a < b => f[a] < f[b]

ExpectedExamples == [k \in 1..Cardinality(ExampleBlocks) |-> soup[InOrder(ExampleBlocks)[k]].text]

\* C7: when every <pre> has a caption, download_examples returns, in document
\* order, exactly the text of the <pre> blocks whose caption mentions "example"
\* in any case
C7_ExampleExtraction ==
    /\ epc = "done" =>
          /\ \A i \in PreBlocks : CaptionOf(i) # 0
          /\ examples = ExpectedExamples
          /\ examples = ExamplesFrom(soup, 1).examples
    /\ (epc \in {"for", "while"} /\ \A i \in PreBlocks : CaptionOf(i) # 0) =>
          ~ExamplesFrom(soup, 1).raised

C7_Witness ==
    /\ epc = "done"
    /\ Len(examples) = 1
    /\ Cardinality(PreBlocks) = 2
    /\ \E i \in ExampleBlocks : CaptionOf(i) < i - 1

\* C9: the walk back from a <pre> ends: at the nearest sibling before it with
\* non-whitespace text, or, when there is none, with an error and no result
C9_WalkOutcome ==
    /\ epc = "raised" => (CaptionOf(code_block) = 0 /\ previous_paragraph = 0)
    /\ (epc = "for" /\ code_block # 0) =>
           (previous_paragraph # 0 /\ previous_paragraph = CaptionOf(code_block))
    /\ epc = "done" => \A i \in PreBlocks : CaptionOf(i) # 0

\* C9: the walk ends, with the outcome described above
C9_WalkTerminates == <>(epc \in {"done", "raised"}) /\ []C9_WalkOutcome

C9_Witness ==
    /\ epc = "raised"
    /\ code_block = 3
    /\ previous_paragraph = 0

-----------------------------------------------------------------------------
(* Properties of the template expansion *)

BetweenBraces(t, i, header) ==
    /\ \E h \in 1..(i - 1) : t[h] = header /\ \A k \in (h + 1)..(i - 1) : t[k] = " "
    /\ \E c \in (i + 1)..Len(t) : t[c] = "}" /\ \A k \in (i + 1)..(c - 1) : t[k] = " "

DayLiteral(t, i) == t[i] = "1" /\ BetweenBraces(t, i, FnDay)
ImplementedLiteral(t, i) == t[i] = "true" /\ BetweenBraces(t, i, FnImplemented)
AfterTwoSpaces(t, i) == t[i] = "1" /\ i >= 3 /\ t[i - 1] = " " /\ t[i - 2] = " "

RECURSIVE Flatten(_)
Flatten(parts) == IF parts = <<>> THEN <<>> ELSE Head(parts) \o Flatten(Tail(parts))

ThreePlaces(t, d) ==
    Flatten([i \in 1..Len(t) |->
        IF t[i] = "Day01" THEN <<"Day">> \o Pad2(d)
        ELSE IF DayLiteral(t, i) THEN <<ToString(d)>>
        ELSE IF ImplementedLiteral(t, i) THEN <<"false">>
        ELSE <<t[i]>>])

FourPlaces(t, d) ==
    Flatten([i \in 1..Len(t) |->
        IF t[i] = "Day01" THEN <<"Day">> \o Pad2(d)
        ELSE IF DayLiteral(t, i) \/ AfterTwoSpaces(t, i) THEN <<ToString(d)>>
        ELSE IF ImplementedLiteral(t, i) THEN <<"false">>
        ELSE <<t[i]>>])

Day01Kept == tday # 0 => solutions[1] = <<template>>

\* C6 as stated: dayDD.rs is the template with the day-01 label, the literal of
\* the day function and the literal of the implemented function replaced, and
\* nothing else; day01.rs is not written
C6_ThreeSubstitutions ==
    /\ Day01Kept
    /\ \A d \in SolutionDays \ {1} :
           solutions[d] # <<>> => solutions[d][1] = ThreePlaces(template, d)

\* C6, amended: besides those three places, every "1" that directly follows two
\* spaces is replaced by the day number as well, wherever it stands; the
\* literal of day is replaced where it is 1 and that of implemented where it
\* is true
C6_FourSubstitutions ==
    /\ Day01Kept
    /\ \A d \in SolutionDays \ {1} :
           solutions[d] # <<>> => solutions[d][1] = FourPlaces(template, d)

C6_Witness ==
    /\ solutions[FirstCopy] # <<>>
    /\ \E i \in 1..Len(template) : DayLiteral(template, i) /\ ~AfterTwoSpaces(template, i)
    /\ \E i \in 1..Len(template) : template[i] = "Day01"

====
